---- MODULE Spec2Model ----
(***************************************************************************)
(* Model of drivers/misc/geekbox-fan.c: a GPIO fan driven by a mode        *)
(* attribute (off / on / auto) and, in auto mode, by a delayed work item    *)
(* that polls the temperature and re-arms itself.                           *)
(*                                                                          *)
(* Processes: the sysfs writers that run fan_mode_store, the workqueue      *)
(* workers that run fan_work_func, and the timer of the delayed work.  The  *)
(* driver takes no lock, so every access to fan_data, to the GPIO and to    *)
(* the work item is a step of its own.                                      *)
(***************************************************************************)
EXTENDS Integers, Sequences, FiniteSets, TLC

\* ------------------------------------------------------------ constants
GBOX_FAN_TRIG_TEMP == 50
GBOX_FAN_LOOP_SECS == 30
GBOX_FAN_LOOP_NODELAY_SECS == 0
GBOX_FAN_GPIO_OFF == 0
GBOX_FAN_GPIO_ON == 1
GBOX_FAN_STATE_OFF == 0
GBOX_FAN_STATE_ON == 1
GBOX_FAN_STATE_AUTO == 2
\* INVALID_TEMP of <linux/rockchip/common.h> is INT_MAX
INVALID_TEMP == 2147483647
EINVAL == 22
\* the base handed to kstrtoint by fan_mode_store
STORE_BASE == 3

\* ------------------------------------------------------------ bounds
\* sensor readings range over MinTemp..MaxTemp and the invalid sentinel
MinTemp == 48
MaxTemp == 52
\* number of workqueue workers that may pick up the work item
NWorkers == 2

\* the devicetree's "trig-temp" property: absent, or a value
DtTrigTemps == { [present |-> FALSE, val |-> 0],
                 [present |-> TRUE, val |-> 49],
                 [present |-> TRUE, val |-> 51] }
Readings == (MinTemp..MaxTemp) \cup {INVALID_TEMP}
Workers == 1..NWorkers
Callers == {1, 2}
\* the callers that write the mode attribute one call at a time
SeqCallers == {1}
\* buffers written to the mode attribute
Bufs == { <<"0">>, <<"1">>, <<"2">>, <<"3">>, <<"1", "0">>, <<"-", "1">>,
          <<"2", "\n">>, <<"2", "x">>, << >> }

\* ------------------------------------------------------------ kstrtoint
\* kstrtoint and the workqueue calls below are kernel services the driver
\* calls; they are modelled by their kernel behaviour (lib/kstrtox.c,
\* kernel/workqueue.c), overflow of the parsed value left out.
\* value of a digit character, -1 for any other character
DigitVal(ch) ==
  CASE ch = "0" -> 0
    [] ch = "1" -> 1
    [] ch = "2" -> 2
    [] ch = "3" -> 3
    [] OTHER -> -1

\* _parse_integer: the leading digits of s that are below base;
\* [rv |-> number of characters consumed, val |-> their value]
RECURSIVE ParseInteger(_, _, _, _)
ParseInteger(s, base, rv, acc) ==
  IF s = << >> \/ DigitVal(Head(s)) < 0 \/ DigitVal(Head(s)) >= base
  THEN [rv |-> rv, val |-> acc]
  ELSE ParseInteger(Tail(s), base, rv + 1, acc * base + DigitVal(Head(s)))

\* _kstrtoull: digits, then at most one newline, then the end of the string
KstrtoUll(s, base) ==
  LET p == ParseInteger(s, base, 0, 0)
      rest == SubSeq(s, p.rv + 1, Len(s))
      rest2 == IF rest # << >> /\ Head(rest) = "\n" THEN Tail(rest) ELSE rest
  IN IF p.rv = 0 \/ rest2 # << >>
     THEN [err |-> -EINVAL, val |-> 0]
     ELSE [err |-> 0, val |-> p.val]

\* kstrtoint(buf, base, &res): an optional sign, then _kstrtoull
kstrtoint(s, base) ==
  IF s # << >> /\ Head(s) = "-"
  THEN LET r == KstrtoUll(Tail(s), base)
       IN [err |-> r.err, val |-> 0 - r.val]
  ELSE IF s # << >> /\ Head(s) = "+"
       THEN KstrtoUll(Tail(s), base)
       ELSE KstrtoUll(s, base)

\* ------------------------------------------------------------ delayed work
\* The delayed_work of fan_data: its PENDING bit, whether its timer is armed
\* (a tick due after GBOX_FAN_LOOP_SECS) and how many times it sits on the
\* worklist (a tick due now).
WorkIdle == [pending |-> FALSE, timer |-> FALSE, queued |-> 0]

\* number of poll tasks that are scheduled and have not started
PendingTasks(w) == (IF w.timer THEN 1 ELSE 0) + w.queued

\* schedule_delayed_work(&work, delay): nothing when the work is already
\* pending; else queue it now (delay 0) or arm its timer.
\* [wq |-> the work afterwards, ret |-> the bool it returns]
schedule_delayed_work(w, delay) ==
  IF w.pending
  THEN [wq |-> w, ret |-> FALSE]
  ELSE IF delay = 0
       THEN [wq |-> [pending |-> TRUE, timer |-> w.timer, queued |-> w.queued + 1],
             ret |-> TRUE]
       ELSE [wq |-> [pending |-> TRUE, timer |-> TRUE, queued |-> w.queued],
             ret |-> TRUE]

\* cancel_delayed_work(&work): take the pending work off its timer or off
\* the worklist; a work that is executing is not waited for.
cancel_delayed_work(w) ==
  IF w.timer
  THEN [pending |-> FALSE, timer |-> FALSE, queued |-> w.queued]
  ELSE IF w.queued > 0
       THEN [pending |-> FALSE, timer |-> FALSE, queued |-> w.queued - 1]
       ELSE [pending |-> FALSE, timer |-> w.timer, queued |-> w.queued]

\* ------------------------------------------------------------ state
VARIABLES
  dstate,     \* "unbound" before a successful probe, "bound" after
  pret,       \* what the last gbox_fan_probe returned ("none" before any)
  dt_trig,    \* the devicetree's trig-temp property
  mode,       \* fan_data->mode
  trig_temp,  \* fan_data->trig_temp
  gpio,       \* level of the control GPIO
  wq,         \* fan_data->work
  wpc,        \* each worker's position in fan_work_func
  temp,       \* each worker's local temp
  cpc,        \* each writer's position in fan_mode_store / gbox_fan_mode_set
  creq,       \* each writer's local mode (the parsed integer)
  ccount,     \* each writer's count argument
  cret,       \* the value the writer's call returns
  csched,     \* what schedule_delayed_work returned to the writer's call
  scenD,      \* history: the off branch cancelled a queued first tick
  prevOff,    \* history: end state of the previous call if it was an off call,
              \* << >> otherwise
  regulator,  \* fan_data->regulator: "none", "held" (regulator_get), "put"
  tpc,        \* position of gbox_fan_remove / gbox_fan_shutdown
  tkind,      \* which of the two is running or has run ("none" before)
  shown,      \* the buffer the last fan_mode_show filled
  lastSet     \* history: the mode of the last write that returned count

vars == <<dstate, pret, dt_trig, mode, trig_temp, gpio, wq, wpc, temp,
          cpc, creq, ccount, cret, csched, scenD, prevOff,
          regulator, tpc, tkind, shown, lastSet>>

\* (mode, pin, pending tasks) as a caller sees them
EndState == <<mode, gpio, PendingTasks(wq)>>

TypeOK ==
  /\ dstate \in {"unbound", "bound", "teardown", "removed", "shutdown"}
  /\ pret \in {"none", "ENOMEM", "EIO", "ECLASS", "OK"}
  /\ dt_trig \in DtTrigTemps
  /\ mode \in Int
  /\ trig_temp \in Int
  /\ gpio \in {GBOX_FAN_GPIO_OFF, GBOX_FAN_GPIO_ON}
  /\ wq \in [pending : BOOLEAN, timer : BOOLEAN, queued : Nat]
  /\ wpc \in [Workers -> {"idle", "read", "decide", "resched"}]
  /\ temp \in [Workers -> Readings]
  /\ cpc \in [Callers -> {"idle", "switch", "off_cancel", "off_gpio",
                          "on_cancel", "on_gpio", "auto_sched", "ret"}]
  /\ creq \in [Callers -> Int]
  /\ ccount \in [Callers -> Nat]
  /\ cret \in [Callers -> Int]
  /\ csched \in [Callers -> {"none", "true", "false"}]
  /\ scenD \in BOOLEAN
  /\ prevOff \in Seq(Int)
  /\ regulator \in {"none", "held", "put"}
  /\ tpc \in {"idle", "switch", "off_cancel", "off_gpio", "put", "ret"}
  /\ tkind \in {"none", "remove", "shutdown"}
  /\ shown \in Seq(STRING)
  /\ lastSet \in Int

\* Before probe: devm_kzalloc has not run, the pin is at either level.
Init ==
  /\ dstate = "unbound"
  /\ pret = "none"
  /\ dt_trig \in DtTrigTemps
  /\ mode = 0
  /\ trig_temp = 0
  /\ gpio \in {GBOX_FAN_GPIO_OFF, GBOX_FAN_GPIO_ON}
  /\ wq = WorkIdle
  /\ wpc = [w \in Workers |-> "idle"]
  /\ temp = [w \in Workers |-> INVALID_TEMP]
  /\ cpc = [c \in Callers |-> "idle"]
  /\ creq = [c \in Callers |-> 0]
  /\ ccount = [c \in Callers |-> 0]
  /\ cret = [c \in Callers |-> 0]
  /\ csched = [c \in Callers |-> "none"]
  /\ scenD = FALSE
  /\ prevOff = << >>
  /\ regulator = "none"
  /\ tpc = "idle"
  /\ tkind = "none"
  /\ shown = << >>
  /\ lastSet = GBOX_FAN_STATE_OFF

\* ------------------------------------------------------------ probe
\* gbox_fan_probe.  res is how far it gets: "ENOMEM" (devm_kzalloc fails),
\* "EIO" (gpio_request fails), "ECLASS" (class_create fails) or "OK".
\* fan_data is device-managed, so a failed probe leaves no fan_data behind;
\* the level written to the pin stays.
\* mutant: the default is not applied when the property is absent
ProbeTrigTemp_NoDefault(dt) == dt.val

ProbeTrigTemp(dt) == IF dt.present THEN dt.val ELSE GBOX_FAN_TRIG_TEMP

gbox_fan_probe(res) ==
  /\ dstate = "unbound"
  /\ pret' = res
  /\ CASE res = "ENOMEM" ->
            UNCHANGED <<dstate, mode, trig_temp, gpio, wq>>
       [] res = "EIO" ->
            UNCHANGED <<dstate, mode, trig_temp, gpio, wq>>
       [] res = "ECLASS" ->
            /\ gpio' = GBOX_FAN_GPIO_OFF
            /\ UNCHANGED <<dstate, mode, trig_temp, wq>>
       [] OTHER ->
            /\ trig_temp' = ProbeTrigTemp(dt_trig)
            /\ gpio' = GBOX_FAN_GPIO_OFF
            /\ mode' = GBOX_FAN_STATE_OFF
            /\ wq' = WorkIdle
            /\ dstate' = "bound"
  /\ UNCHANGED <<dt_trig, wpc, temp, cpc, creq, ccount, cret, csched,
                 scenD, prevOff>>
  /\ regulator' = IF res \in {"ECLASS", "OK"} THEN "held" ELSE regulator
  /\ UNCHANGED <<tpc, tkind, shown, lastSet>>

\* ------------------------------------------------------------ fan_work_func
\* A worker takes the work off the worklist and clears its PENDING bit; the
\* workqueue does not run a work item on two workers at once.
WorkerStart(w) ==
  /\ wq.queued > 0
  /\ \A v \in Workers : wpc[v] = "idle"
  /\ wq' = [pending |-> FALSE, timer |-> wq.timer, queued |-> wq.queued - 1]
  /\ wpc' = [wpc EXCEPT ![w] = "read"]
  /\ temp' = [temp EXCEPT ![w] = INVALID_TEMP]
  /\ UNCHANGED <<dstate, pret, dt_trig, mode, trig_temp, gpio, cpc, creq, ccount,
                 cret, csched, scenD, prevOff>>
  /\ UNCHANGED <<regulator, tpc, tkind, shown, lastSet>>

\* volt = regulator_get_voltage(); temp = rockchip_tsadc_get_temp(0, volt)
TickRead(w, r) ==
  /\ wpc[w] = "read"
  /\ temp' = [temp EXCEPT ![w] = r]
  /\ wpc' = [wpc EXCEPT ![w] = "decide"]
  /\ UNCHANGED <<dstate, pret, dt_trig, mode, trig_temp, gpio, wq, cpc, creq,
                 ccount, cret, csched, scenD, prevOff>>
  /\ UNCHANGED <<regulator, tpc, tkind, shown, lastSet>>

\* mutant: the comparison is not strict
TickLevel_NotStrict(t, trig) ==
  IF t >= trig /\ t # INVALID_TEMP THEN GBOX_FAN_GPIO_ON ELSE GBOX_FAN_GPIO_OFF

\* the level the tick writes for reading t and trigger temperature trig
TickLevel(t, trig) ==
  IF t > trig /\ t # INVALID_TEMP THEN GBOX_FAN_GPIO_ON ELSE GBOX_FAN_GPIO_OFF

TickDecide(w) ==
  /\ wpc[w] = "decide"
  /\ gpio' = TickLevel(temp[w], trig_temp)
  /\ wpc' = [wpc EXCEPT ![w] = "resched"]
  /\ UNCHANGED <<dstate, pret, dt_trig, mode, trig_temp, wq, temp, cpc, creq,
                 ccount, cret, csched, scenD, prevOff>>
  /\ UNCHANGED <<regulator, tpc, tkind, shown, lastSet>>

\* mutant: the tick reschedules only while the mode is auto
TickResched_OnlyInAuto(w) ==
  /\ wpc[w] = "resched"
  /\ wq' = IF mode = GBOX_FAN_STATE_AUTO
           THEN schedule_delayed_work(wq, GBOX_FAN_LOOP_SECS).wq ELSE wq
  /\ wpc' = [wpc EXCEPT ![w] = "idle"]
  /\ temp' = [temp EXCEPT ![w] = INVALID_TEMP]
  /\ UNCHANGED <<dstate, pret, dt_trig, mode, trig_temp, gpio, cpc, creq, ccount,
                 cret, csched, scenD, prevOff>>
  /\ UNCHANGED <<regulator, tpc, tkind, shown, lastSet>>

\* mutant: a tick whose reading was invalid returns without rescheduling
TickResched_StopsOnInvalid(w) ==
  /\ wpc[w] = "resched"
  /\ wq' = IF temp[w] = INVALID_TEMP
           THEN wq ELSE schedule_delayed_work(wq, GBOX_FAN_LOOP_SECS).wq
  /\ wpc' = [wpc EXCEPT ![w] = "idle"]
  /\ temp' = [temp EXCEPT ![w] = INVALID_TEMP]
  /\ UNCHANGED <<dstate, pret, dt_trig, mode, trig_temp, gpio, cpc, creq, ccount,
                 cret, csched, scenD, prevOff>>
  /\ UNCHANGED <<regulator, tpc, tkind, shown, lastSet>>

\* schedule_delayed_work(&fan_data->work, GBOX_FAN_LOOP_SECS); return
TickResched(w) ==
  /\ wpc[w] = "resched"
  /\ wq' = schedule_delayed_work(wq, GBOX_FAN_LOOP_SECS).wq
  /\ wpc' = [wpc EXCEPT ![w] = "idle"]
  /\ temp' = [temp EXCEPT ![w] = INVALID_TEMP]
  /\ UNCHANGED <<dstate, pret, dt_trig, mode, trig_temp, gpio, cpc, creq, ccount,
                 cret, csched, scenD, prevOff>>
  /\ UNCHANGED <<regulator, tpc, tkind, shown, lastSet>>

\* the delay of the work's timer elapses: the work moves to the worklist
TimerFire ==
  /\ wq.timer
  /\ wq' = [pending |-> wq.pending, timer |-> FALSE, queued |-> wq.queued + 1]
  /\ UNCHANGED <<dstate, pret, dt_trig, mode, trig_temp, gpio, wpc, temp, cpc,
                 creq, ccount, cret, csched, scenD, prevOff>>
  /\ UNCHANGED <<regulator, tpc, tkind, shown, lastSet>>

\* ------------------------------------------------------------ fan_mode_store
\* kstrtoint(buf, 3, &mode), return -EINVAL on failure; fan_data->mode = mode
StoreBegin(c, buf) ==
  /\ dstate = "bound"
  /\ cpc[c] = "idle"
  /\ LET r == kstrtoint(buf, STORE_BASE)
     IN IF r.err # 0
        THEN /\ cret' = [cret EXCEPT ![c] = -EINVAL]
             /\ cpc' = [cpc EXCEPT ![c] = "ret"]
             /\ UNCHANGED <<mode, creq, scenD>>
        ELSE /\ creq' = [creq EXCEPT ![c] = r.val]
             /\ mode' = r.val
             /\ cpc' = [cpc EXCEPT ![c] = "switch"]
             /\ scenD' = IF r.val = GBOX_FAN_STATE_AUTO THEN FALSE ELSE scenD
             /\ UNCHANGED cret
  /\ ccount' = [ccount EXCEPT ![c] = Len(buf)]
  /\ UNCHANGED <<dstate, pret, dt_trig, trig_temp, gpio, wq, wpc, temp, csched,
                 prevOff>>
  /\ UNCHANGED <<regulator, tpc, tkind, shown, lastSet>>

\* mutant: a value that matches no case is handled like off
ModeSwitchTarget_DefaultOff(m) ==
  CASE m = GBOX_FAN_STATE_ON -> "on_cancel"
    [] m = GBOX_FAN_STATE_AUTO -> "auto_sched"
    [] OTHER -> "off_cancel"

\* gbox_fan_mode_set: switch (fan_data->mode)
ModeSwitchTarget(m) ==
  CASE m = GBOX_FAN_STATE_OFF -> "off_cancel"
    [] m = GBOX_FAN_STATE_ON -> "on_cancel"
    [] m = GBOX_FAN_STATE_AUTO -> "auto_sched"
    [] OTHER -> "ret"

ModeSwitch(c) ==
  /\ cpc[c] = "switch"
  /\ cpc' = [cpc EXCEPT ![c] = ModeSwitchTarget(mode)]
  /\ cret' = [cret EXCEPT ![c] =
                IF ModeSwitchTarget(mode) = "ret" THEN ccount[c] ELSE @]
  /\ UNCHANGED <<dstate, pret, dt_trig, mode, trig_temp, gpio, wq, wpc, temp, creq,
                 ccount, csched, scenD, prevOff>>
  /\ UNCHANGED <<regulator, tpc, tkind, shown, lastSet>>

\* mutant: the off branch writes the pin and leaves the work alone
ModeSetOffCancel_NoCancel(c) ==
  /\ cpc[c] = "off_cancel"
  /\ cpc' = [cpc EXCEPT ![c] = "off_gpio"]
  /\ scenD' = IF /\ wq.queued > 0
                 /\ ~wq.timer
                 /\ \A w \in Workers : wpc[w] = "idle"
              THEN TRUE ELSE scenD
  /\ UNCHANGED <<dstate, pret, dt_trig, mode, trig_temp, gpio, wq, wpc, temp,
                 creq, ccount, cret, csched, prevOff>>
  /\ UNCHANGED <<regulator, tpc, tkind, shown, lastSet>>

\* case GBOX_FAN_STATE_OFF: cancel_delayed_work(&fan_data->work)
ModeSetOffCancel(c) ==
  /\ cpc[c] = "off_cancel"
  /\ wq' = cancel_delayed_work(wq)
  /\ cpc' = [cpc EXCEPT ![c] = "off_gpio"]
  /\ scenD' = IF /\ wq.queued > 0
                 /\ ~wq.timer
                 /\ \A w \in Workers : wpc[w] = "idle"
              THEN TRUE ELSE scenD
  /\ UNCHANGED <<dstate, pret, dt_trig, mode, trig_temp, gpio, wpc, temp, creq,
                 ccount, cret, csched, prevOff>>
  /\ UNCHANGED <<regulator, tpc, tkind, shown, lastSet>>

\* gpio_set_value(fan_data->ctrl_gpio, GBOX_FAN_GPIO_OFF); break
ModeSetOffGpio(c) ==
  /\ cpc[c] = "off_gpio"
  /\ gpio' = GBOX_FAN_GPIO_OFF
  /\ cpc' = [cpc EXCEPT ![c] = "ret"]
  /\ cret' = [cret EXCEPT ![c] = ccount[c]]
  /\ UNCHANGED <<dstate, pret, dt_trig, mode, trig_temp, wq, wpc, temp, creq,
                 ccount, csched, scenD, prevOff>>
  /\ UNCHANGED <<regulator, tpc, tkind, shown, lastSet>>

\* case GBOX_FAN_STATE_ON: cancel_delayed_work(&fan_data->work)
ModeSetOnCancel(c) ==
  /\ cpc[c] = "on_cancel"
  /\ wq' = cancel_delayed_work(wq)
  /\ cpc' = [cpc EXCEPT ![c] = "on_gpio"]
  /\ UNCHANGED <<dstate, pret, dt_trig, mode, trig_temp, gpio, wpc, temp, creq,
                 ccount, cret, csched, scenD, prevOff>>
  /\ UNCHANGED <<regulator, tpc, tkind, shown, lastSet>>

\* gpio_set_value(fan_data->ctrl_gpio, GBOX_FAN_GPIO_ON); break
ModeSetOnGpio(c) ==
  /\ cpc[c] = "on_gpio"
  /\ gpio' = GBOX_FAN_GPIO_ON
  /\ cpc' = [cpc EXCEPT ![c] = "ret"]
  /\ cret' = [cret EXCEPT ![c] = ccount[c]]
  /\ UNCHANGED <<dstate, pret, dt_trig, mode, trig_temp, wq, wpc, temp, creq,
                 ccount, csched, scenD, prevOff>>
  /\ UNCHANGED <<regulator, tpc, tkind, shown, lastSet>>

\* mutant: the auto branch also writes the pin off, as the off branch does
ModeSetAuto_WritesPin(c) ==
  /\ cpc[c] = "auto_sched"
  /\ LET r == schedule_delayed_work(wq, GBOX_FAN_LOOP_NODELAY_SECS)
     IN /\ wq' = r.wq
        /\ csched' = [csched EXCEPT ![c] = IF r.ret THEN "true" ELSE "false"]
  /\ gpio' = GBOX_FAN_GPIO_OFF
  /\ cpc' = [cpc EXCEPT ![c] = "ret"]
  /\ cret' = [cret EXCEPT ![c] = ccount[c]]
  /\ UNCHANGED <<dstate, pret, dt_trig, mode, trig_temp, wpc, temp, creq,
                 ccount, scenD, prevOff>>
  /\ UNCHANGED <<regulator, tpc, tkind, shown, lastSet>>

\* mutant: the auto branch queues the work without regard to its PENDING bit
ModeSetAuto_Requeue(c) ==
  /\ cpc[c] = "auto_sched"
  /\ wq' = [pending |-> TRUE, timer |-> wq.timer, queued |-> wq.queued + 1]
  /\ csched' = [csched EXCEPT ![c] = "true"]
  /\ cpc' = [cpc EXCEPT ![c] = "ret"]
  /\ cret' = [cret EXCEPT ![c] = ccount[c]]
  /\ UNCHANGED <<dstate, pret, dt_trig, mode, trig_temp, gpio, wpc, temp,
                 creq, ccount, scenD, prevOff>>
  /\ UNCHANGED <<regulator, tpc, tkind, shown, lastSet>>

\* case GBOX_FAN_STATE_AUTO:
\*   schedule_delayed_work(&fan_data->work, GBOX_FAN_LOOP_NODELAY_SECS)
\* the bool it returns is dropped; csched keeps it for the record
ModeSetAuto(c) ==
  /\ cpc[c] = "auto_sched"
  /\ LET r == schedule_delayed_work(wq, GBOX_FAN_LOOP_NODELAY_SECS)
     IN /\ wq' = r.wq
        /\ csched' = [csched EXCEPT ![c] = IF r.ret THEN "true" ELSE "false"]
  /\ cpc' = [cpc EXCEPT ![c] = "ret"]
  /\ cret' = [cret EXCEPT ![c] = ccount[c]]
  /\ UNCHANGED <<dstate, pret, dt_trig, mode, trig_temp, gpio, wpc, temp, creq,
                 ccount, scenD, prevOff>>
  /\ UNCHANGED <<regulator, tpc, tkind, shown, lastSet>>

\* fan_mode_store returns to the writer
StoreReturn(c) ==
  /\ cpc[c] = "ret"
  /\ cpc' = [cpc EXCEPT ![c] = "idle"]
  /\ prevOff' = IF cret[c] > 0 /\ creq[c] = GBOX_FAN_STATE_OFF
                THEN EndState ELSE << >>
  /\ creq' = [creq EXCEPT ![c] = 0]
  /\ ccount' = [ccount EXCEPT ![c] = 0]
  /\ cret' = [cret EXCEPT ![c] = 0]
  /\ csched' = [csched EXCEPT ![c] = "none"]
  /\ UNCHANGED <<dstate, pret, dt_trig, mode, trig_temp, gpio, wq, wpc, temp,
                 scenD>>
  /\ lastSet' = IF cret[c] > 0 THEN creq[c] ELSE lastSet
  /\ UNCHANGED <<regulator, tpc, tkind, shown>>

\* one step of writer c
CallerStep(c) ==
  \/ \E buf \in Bufs : StoreBegin(c, buf)
  \/ ModeSwitch(c)
  \/ ModeSetOffCancel(c)
  \/ ModeSetOffGpio(c)
  \/ ModeSetOnCancel(c)
  \/ ModeSetOnGpio(c)
  \/ ModeSetAuto(c)
  \/ StoreReturn(c)

\* one step of worker w
WorkerStep(w) ==
  \/ WorkerStart(w)
  \/ \E r \in Readings : TickRead(w, r)
  \/ TickDecide(w)
  \/ TickResched(w)

\* ------------------------------------------------------------ fan_mode_show
\* the characters sprintf's %d gives for n
RECURSIVE DecimalDigits(_)
DecimalDigits(n) ==
  IF n < 10
  THEN <<CASE n = 0 -> "0" [] n = 1 -> "1" [] n = 2 -> "2" [] n = 3 -> "3"
           [] n = 4 -> "4" [] n = 5 -> "5" [] n = 6 -> "6" [] n = 7 -> "7"
           [] n = 8 -> "8" [] OTHER -> "9">>
  ELSE DecimalDigits(n \div 10) \o DecimalDigits(n % 10)

Decimal(n) == IF n < 0 THEN <<"-">> \o DecimalDigits(0 - n) ELSE DecimalDigits(n)

\* sprintf(buf, "Fan mode: %d\n", m)
FanModeFormat(m) == <<"Fan mode: ">> \o Decimal(m) \o <<"\n">>

\* mutant: the level of the pin is printed in place of the mode
fan_mode_show_PrintsPin ==
  /\ dstate = "bound"
  /\ shown' = FanModeFormat(gpio)
  /\ UNCHANGED <<dstate, pret, dt_trig, mode, trig_temp, gpio, wq, wpc, temp,
                 cpc, creq, ccount, cret, csched, scenD, prevOff,
                 regulator, tpc, tkind, lastSet>>

\* fan_mode_show: one read of fan_data->mode, formatted into buf
fan_mode_show ==
  /\ dstate = "bound"
  /\ shown' = FanModeFormat(mode)
  /\ UNCHANGED <<dstate, pret, dt_trig, mode, trig_temp, gpio, wq, wpc, temp,
                 cpc, creq, ccount, cret, csched, scenD, prevOff,
                 regulator, tpc, tkind, lastSet>>

\* ------------------------------------------------------------ remove, shutdown
\* gbox_fan_remove (kind "remove") and gbox_fan_shutdown (kind "shutdown"):
\* fan_data->mode = GBOX_FAN_STATE_OFF, then gbox_fan_mode_set.  The mode
\* attribute is written only while the device is bound, so nothing writes
\* fan_data->mode between this store and the switch that reads it.
TeardownBegin(kind) ==
  /\ dstate = "bound"
  /\ tpc = "idle"
  /\ mode' = GBOX_FAN_STATE_OFF
  /\ tpc' = "switch"
  /\ tkind' = kind
  /\ dstate' = "teardown"
  /\ UNCHANGED <<pret, dt_trig, trig_temp, gpio, wq, wpc, temp, cpc, creq,
                 ccount, cret, csched, scenD, prevOff, regulator, shown,
                 lastSet>>

\* gbox_fan_mode_set: switch (fan_data->mode)
TeardownSwitch ==
  /\ tpc = "switch"
  /\ tpc' = ModeSwitchTarget(mode)
  /\ UNCHANGED <<dstate, pret, dt_trig, mode, trig_temp, gpio, wq, wpc, temp,
                 cpc, creq, ccount, cret, csched, scenD, prevOff, regulator,
                 tkind, shown, lastSet>>

\* case GBOX_FAN_STATE_OFF: cancel_delayed_work(&fan_data->work)
TeardownCancel ==
  /\ tpc = "off_cancel"
  /\ wq' = cancel_delayed_work(wq)
  /\ tpc' = "off_gpio"
  /\ UNCHANGED <<dstate, pret, dt_trig, mode, trig_temp, gpio, wpc, temp,
                 cpc, creq, ccount, cret, csched, scenD, prevOff, regulator,
                 tkind, shown, lastSet>>

\* gpio_set_value(fan_data->ctrl_gpio, GBOX_FAN_GPIO_OFF); break
TeardownGpio ==
  /\ tpc = "off_gpio"
  /\ gpio' = GBOX_FAN_GPIO_OFF
  /\ tpc' = IF tkind = "remove" THEN "put" ELSE "ret"
  /\ UNCHANGED <<dstate, pret, dt_trig, mode, trig_temp, wq, wpc, temp,
                 cpc, creq, ccount, cret, csched, scenD, prevOff, regulator,
                 tkind, shown, lastSet>>

\* gbox_fan_remove: regulator_put(fan_data->regulator)
TeardownPut ==
  /\ tpc = "put"
  /\ regulator' = "put"
  /\ tpc' = "ret"
  /\ UNCHANGED <<dstate, pret, dt_trig, mode, trig_temp, gpio, wq, wpc, temp,
                 cpc, creq, ccount, cret, csched, scenD, prevOff,
                 tkind, shown, lastSet>>

\* gbox_fan_remove returns 0, gbox_fan_shutdown returns
TeardownReturn ==
  /\ tpc = "ret"
  /\ tpc' = "idle"
  /\ dstate' = IF tkind = "remove" THEN "removed" ELSE "shutdown"
  /\ UNCHANGED <<pret, dt_trig, mode, trig_temp, gpio, wq, wpc, temp,
                 cpc, creq, ccount, cret, csched, scenD, prevOff, regulator,
                 tkind, shown, lastSet>>

\* one step of the thread that unbinds or shuts down the device
TeardownStep ==
  \/ TeardownSwitch
  \/ TeardownCancel
  \/ TeardownGpio
  \/ TeardownPut
  \/ TeardownReturn

\* ------------------------------------------------------------ specifications
Next ==
  \/ \E res \in {"ENOMEM", "EIO", "ECLASS", "OK"} : gbox_fan_probe(res)
  \/ \E c \in SeqCallers : CallerStep(c)
  \/ \E w \in Workers : WorkerStep(w)
  \/ TimerFire
  \/ fan_mode_show

\* the bound device: one writer and the readers of the mode attribute, the
\* workers and the timer
Spec == Init /\ [][Next]_vars

\* Spec with the workqueue and the timer making progress: a work on the
\* worklist is run, a tick that started finishes, an armed timer expires
SpecLive ==
  /\ Spec
  /\ WF_vars(\E w \in Workers : WorkerStep(w))
  /\ WF_vars(TimerFire)

\* Spec followed by the removal or the shutdown of the device, begun while
\* no write of the attribute is in flight
NextTeardown ==
  \/ Next
  \/ \E kind \in {"remove", "shutdown"} :
       TeardownBegin(kind) /\ \A c \in Callers : cpc[c] = "idle"
  \/ TeardownStep

SpecTeardown == Init /\ [][NextTeardown]_vars

\* two writers of the mode attribute at once, no tick in flight: the workers
\* and the timer do not run
NextConc ==
  \/ \E res \in {"ENOMEM", "EIO", "ECLASS", "OK"} : gbox_fan_probe(res)
  \/ \E c \in Callers : CallerStep(c)

SpecConc == Init /\ [][NextConc]_vars

\* ------------------------------------------------------------ properties
\* writer c's call returns in this step
Returns(c) == cpc[c] = "ret" /\ cpc'[c] = "idle"
\* writer c's call parsed its buffer to mode m and is returning count
ReturnsOk(c, m) == Returns(c) /\ cret[c] > 0 /\ creq[c] = m

\* C1: at any time, and so after any write of the mode attribute returns, at
\* most one poll task is scheduled and not yet started.
C1_AtMostOnePending == PendingTasks(wq) <= 1

\* a write of "auto" is returning after it found the work already pending
C1_Witness ==
  /\ cpc[1] = "ret"
  /\ creq[1] = GBOX_FAN_STATE_AUTO
  /\ csched[1] = "false"
  /\ PendingTasks(wq) = 1

\* C2: when a write of "off" returns, the pin is off.
C2_OffPinOffAtReturn ==
  [][\A c \in Callers :
       ReturnsOk(c, GBOX_FAN_STATE_OFF) => gpio' = GBOX_FAN_GPIO_OFF]_vars

\* C3: when a write of "on" returns, the pin is on and no poll task is pending.
C3_OnPinOnNoTaskAtReturn ==
  [][\A c \in Callers :
       ReturnsOk(c, GBOX_FAN_STATE_ON) =>
         gpio' = GBOX_FAN_GPIO_ON /\ PendingTasks(wq') = 0]_vars

\* C4: the tick's write of the pin is ON exactly when its reading is valid and
\* strictly above the trigger temperature, OFF when it is invalid or at or
\* below the trigger temperature.
C4_TickDecision ==
  [][\A w \in Workers :
       (wpc[w] = "decide" /\ wpc'[w] = "resched") =>
         /\ (temp[w] # INVALID_TEMP /\ temp[w] > trig_temp)
              => gpio' = GBOX_FAN_GPIO_ON
         /\ (temp[w] = INVALID_TEMP \/ temp[w] <= trig_temp)
              => gpio' = GBOX_FAN_GPIO_OFF]_vars

\* a tick has decided on a reading equal to the trigger temperature
C4_Witness ==
  \E w \in Workers :
    /\ wpc[w] = "resched"
    /\ temp[w] = trig_temp
    /\ gpio = GBOX_FAN_GPIO_OFF

\* C5: the auto branch's scheduling step always leaves a tick due at once
\* (the work on the worklist), whatever the state it runs in.
C5_AutoSchedulesImmediateTick ==
  [][\A c \in Callers :
       (cpc[c] = "auto_sched" /\ cpc'[c] = "ret") => wq'.queued >= 1]_vars

\* C6: once a write of "off" has cancelled the tick queued by a write of
\* "auto" before any worker started it, no task is pending and no tick
\* executes until the next write of "auto", and the pin is off once the
\* write of "off" has returned.
C6_ScenarioD ==
  scenD =>
    /\ \A w \in Workers : wpc[w] = "idle"
    /\ PendingTasks(wq) = 0
    /\ ((mode = GBOX_FAN_STATE_OFF /\ \A c \in Callers : cpc[c] = "idle")
          => gpio = GBOX_FAN_GPIO_OFF)

\* the write of "off" of scenario D has returned
C6_Witness ==
  /\ scenD
  /\ mode = GBOX_FAN_STATE_OFF
  /\ \A c \in Callers : cpc[c] = "idle"
  /\ prevOff = <<GBOX_FAN_STATE_OFF, GBOX_FAN_GPIO_OFF, 0>>

\* C7: a write of "off" that directly follows a write of "off" returns in the
\* state the first one returned in: mode off, pin off, no pending task.
C7_OffIdempotent ==
  [][\A c \in Callers :
       (ReturnsOk(c, GBOX_FAN_STATE_OFF) /\ prevOff # << >>) =>
         /\ EndState' = prevOff
         /\ EndState' = <<GBOX_FAN_STATE_OFF, GBOX_FAN_GPIO_OFF, 0>>]_vars

\* C8: a write whose integer is none of off, on, auto returns -EINVAL.
C8_RejectsUnknownMode ==
  \A c \in Callers :
    (cpc[c] = "ret" /\ creq[c] \notin {GBOX_FAN_STATE_OFF, GBOX_FAN_STATE_ON,
                                        GBOX_FAN_STATE_AUTO})
      => cret[c] = -EINVAL

\* C9: a write of "auto" whose schedule_delayed_work was not accepted does
\* not return success.
C9_SchedulingFailureReported ==
  \A c \in Callers :
    (cpc[c] = "ret" /\ csched[c] = "false") => cret[c] < 0

\* C10: a probe that succeeds leaves mode off, the pin off, no pending task
\* and the configured trigger temperature, 50 when none is configured.
C10_ProbeState ==
  [][(dstate = "unbound" /\ dstate' = "bound") =>
       /\ mode' = GBOX_FAN_STATE_OFF
       /\ gpio' = GBOX_FAN_GPIO_OFF
       /\ PendingTasks(wq') = 0
       /\ (dt_trig.present => trig_temp' = dt_trig.val)
       /\ (~dt_trig.present => trig_temp' = GBOX_FAN_TRIG_TEMP)]_vars

\* probed without a trig-temp property, nothing written to the attribute yet
C10_Witness ==
  /\ dstate = "bound"
  /\ pret = "OK"
  /\ ~dt_trig.present
  /\ trig_temp = GBOX_FAN_TRIG_TEMP
  /\ mode = GBOX_FAN_STATE_OFF
  /\ gpio = GBOX_FAN_GPIO_OFF
  /\ PendingTasks(wq) = 0

\* C11: once gbox_fan_remove or gbox_fan_shutdown has returned, mode is off,
\* the pin is off, no poll task is pending and no tick is executing.
C11_TeardownStopsFan ==
  dstate \in {"removed", "shutdown"} =>
    /\ mode = GBOX_FAN_STATE_OFF
    /\ gpio = GBOX_FAN_GPIO_OFF
    /\ PendingTasks(wq) = 0
    /\ \A w \in Workers : wpc[w] = "idle"

\* C12: under SpecLive, whenever a tick is about to finish in auto mode,
\* whatever its reading was, a tick starts again later unless the mode leaves
\* auto.
C12_TicksRecurInAuto ==
  \A w \in Workers :
    (wpc[w] = "resched" /\ mode = GBOX_FAN_STATE_AUTO)
      ~> (mode # GBOX_FAN_STATE_AUTO \/ \E v \in Workers : wpc[v] = "read")

\* a tick in auto mode has decided on an invalid reading and is about to
\* reschedule
C12_Witness ==
  \E w \in Workers :
    /\ wpc[w] = "resched"
    /\ temp[w] = INVALID_TEMP
    /\ mode = GBOX_FAN_STATE_AUTO
    /\ gpio = GBOX_FAN_GPIO_OFF
    /\ PendingTasks(wq) = 0

\* C13: with no write of the attribute in progress, fan_mode_show prints the
\* mode of the last write that returned count (off when there was none), and
\* no step of a tick changes fan_data->mode.
C13_ShowReturnsLastSetMode ==
  [][/\ ((shown' # shown /\ \A c \in Callers : cpc[c] = "idle")
           => shown' = FanModeFormat(lastSet))
     /\ ((\E w \in Workers : wpc'[w] # wpc[w]) => mode' = mode)]_vars

\* the mode was shown as auto while the loop was running and no write was
\* in progress
C13_Witness ==
  /\ shown = <<"Fan mode: ", "2", "\n">>
  /\ lastSet = GBOX_FAN_STATE_AUTO
  /\ mode = GBOX_FAN_STATE_AUTO
  /\ \A c \in Callers : cpc[c] = "idle"
  /\ wq.timer

\* the device is bound, no write of the attribute is in progress
Quiet == dstate = "bound" /\ \A c \in Callers : cpc[c] = "idle"
\* number of ticks that are executing
Executing == Cardinality({w \in Workers : wpc[w] # "idle"})

\* C14: when mode is off or on, no write is in progress and no tick is
\* executing, no poll task is pending.
C14_LoopStoppedInManualModes ==
  (/\ Quiet
   /\ mode \in {GBOX_FAN_STATE_OFF, GBOX_FAN_STATE_ON}
   /\ Executing = 0)
    => PendingTasks(wq) = 0

\* C15: when no write is in progress, mode off means the pin is off and mode
\* on means the pin is on.
C15_PinFollowsManualMode ==
  Quiet =>
    /\ (mode = GBOX_FAN_STATE_OFF => gpio = GBOX_FAN_GPIO_OFF)
    /\ (mode = GBOX_FAN_STATE_ON => gpio = GBOX_FAN_GPIO_ON)

\* C16: ticks executing and ticks pending never number more than one in all.
C16_OneTickOutstandingOrExecuting ==
  Executing + PendingTasks(wq) <= 1

C18_AutoLeavesPin ==
  [][\A c \in Callers :
       (/\ cpc'[c] # cpc[c]
        /\ \/ creq'[c] = GBOX_FAN_STATE_AUTO /\ cpc'[c] = "switch"
           \/ creq[c] = GBOX_FAN_STATE_AUTO /\ cpc[c] \in {"switch", "auto_sched", "ret"})
         => gpio' = gpio]_vars

\* a write of auto that followed a write of on is returning before any tick
\* has started: the pin is still on
C18_Witness ==
  /\ cpc[1] = "ret"
  /\ creq[1] = GBOX_FAN_STATE_AUTO
  /\ lastSet = GBOX_FAN_STATE_ON
  /\ gpio = GBOX_FAN_GPIO_ON
  /\ wq.queued = 1
  /\ Executing = 0

\* C19: under SpecConc, once every write has returned, mode, pin and pending
\* task are what the write that stored the mode leaves when it runs alone:
\* off with the pin off and no task, on with the pin on and no task, auto
\* with the tick queued.
C19_WritesSerialized ==
  Quiet =>
    /\ mode = GBOX_FAN_STATE_OFF
         => (gpio = GBOX_FAN_GPIO_OFF /\ PendingTasks(wq) = 0)
    /\ mode = GBOX_FAN_STATE_ON
         => (gpio = GBOX_FAN_GPIO_ON /\ PendingTasks(wq) = 0)
    /\ mode = GBOX_FAN_STATE_AUTO
         => (wq.queued = 1 /\ ~wq.timer)

\* C20: no step of a write whose integer is none of off, on, auto (parse and
\* store, switch, return) changes the pin or the work: a pending task stays
\* pending, an absent one stays absent.
C20_UnknownModeIsNoOp ==
  [][\A c \in Callers :
       (/\ cpc'[c] # cpc[c]
        /\ \/ /\ cpc'[c] = "switch"
              /\ creq'[c] \notin {GBOX_FAN_STATE_OFF, GBOX_FAN_STATE_ON,
                                  GBOX_FAN_STATE_AUTO}
           \/ /\ cpc[c] # "idle"
              /\ cret[c] >= 0
              /\ creq[c] \notin {GBOX_FAN_STATE_OFF, GBOX_FAN_STATE_ON,
                                 GBOX_FAN_STATE_AUTO})
         => (gpio' = gpio /\ wq' = wq)]_vars

\* a write of "10" (3 in base 3) is returning count while the loop started
\* by an earlier write of auto has its next tick on the timer
C20_Witness ==
  /\ cpc[1] = "ret"
  /\ creq[1] = 3
  /\ cret[1] > 0
  /\ mode = 3
  /\ lastSet = GBOX_FAN_STATE_AUTO
  /\ wq.timer
  /\ gpio = GBOX_FAN_GPIO_ON

====
